---------------------------- MODULE Spec2Model ----------------------------
(***************************************************************************)
(* LZARI codec of src/src/lib.rs (LZARIContext): LZSS matching over a ring *)
(* buffer indexed by a binary search tree, an adaptive symbol model, a     *)
(* static position model and a 17-bit arithmetic coder.                    *)
(*                                                                         *)
(* The model keeps the code's structure and every formula of it.  Three    *)
(* sizes are scaled down so that whole runs can be enumerated: the ring    *)
(* buffer (2^LOG_N instead of 4096), the maximum match length              *)
(* (MAX_MATCH_LEN, 60 in the source) and the number of byte values of the  *)
(* text (NBYTES, 256 in the source).  The compressed stream keeps 8-bit    *)
(* bytes, the length prefix keeps 32 bits and the coder keeps M = 15.      *)
(*                                                                         *)
(* usize arithmetic: an unsigned subtraction whose result would be         *)
(* negative panics in a build with overflow checks (the debug profile) and *)
(* wraps modulo 2^64 in a build without (the release profile).  The build  *)
(* is chosen in Init (overflow_checks) and both outcomes are explored.     *)
(***************************************************************************)
EXTENDS Integers, Sequences, FiniteSets, TLC

\* ------------------------------------------------------------- bounds
\* log2 of the ring buffer size (12 in the source: RING_BUF_SIZE = 4096)
LOG_N == 4
\* number of byte values of the text (256 in the source: u8)
NBYTES == 2
\* longest encoder input of the round-trip runs
MaxLen == 10
\* a raw decoder input declares a text size of at most MaxTextSize ...
MaxTextSize == 3
\* ... and carries at most MaxPayload stream bytes after the header
MaxPayload == 2
\* update_model calls of one run of ModelSpec
MaxUpdates == 4
\* ModelSpec starts from frequencies of at most MaxTail below rank 1 ...
MaxTail == 2
\* ... whose total is at most MaxSlack below MAX_CUM
MaxSlack == 2
\* NormSpec starts with at most MaxShifts pending shifts
MaxShifts == 1
\* longest match (60 in the source: MAX_MATCH_LEN)
MAX_MATCH_LEN == 5

\* ---------------------------------------------------------- constants
RING_BUF_SIZE == 2 ^ LOG_N
THRESHOLD == 2
NIL == RING_BUF_SIZE
M == 15
Q1 == 2 ^ M
Q2 == 2 * Q1
Q3 == 3 * Q1
Q4 == 4 * Q1
MAX_CUM == Q1 - 1
N_CHAR == NBYTES - THRESHOLD + MAX_MATCH_LEN
\* b' ' of encode and decode, kept inside the scaled byte range
SPACE == IF 32 < NBYTES THEN 32 ELSE NBYTES - 1
\* size_of::<u32>()
SIZE_U32 == 4

Min(a, b) == IF a < b THEN a ELSE b

VARIABLES
    \* the fields of LZARIContext
    inbuf, outbuf, in_buffer, in_mask, in_cursor, out_buffer, out_mask,
    text_buf, lson, rson, dad, match_position,
    low, high, value, shifts,
    char_to_sym, sym_to_char, sym_freq, sym_cum, position_cum,
    \* the locals of encode and decode
    s, r, len, cursor, match_pos, match_length, last_match_length, i,
    sym, textsize, rv, count, c, position,
    \* control: the operation's position, the run's kind, the build
    pc, mode, overflow_checks,
    \* history: the encoder's input, the window, the replaced positions,
    \* whether match_pos/match_length are insert_node(r)'s fresh result,
    \* and the bookkeeping of ModelSpec and NormSpec
    orig, window, evicted, fresh, aux

vars == <<inbuf, outbuf, in_buffer, in_mask, in_cursor, out_buffer, out_mask,
          text_buf, lson, rson, dad, match_position,
          low, high, value, shifts,
          char_to_sym, sym_to_char, sym_freq, sym_cum, position_cum,
          s, r, len, cursor, match_pos, match_length, last_match_length, i,
          sym, textsize, rv, count, c, position,
          pc, mode, overflow_checks,
          orig, window, evicted, fresh, aux>>

bitVars == <<inbuf, outbuf, in_buffer, in_mask, in_cursor, out_buffer, out_mask>>
treeVars == <<text_buf, lson, rson, dad, match_position>>
coderVars == <<low, high, value, shifts>>
modelVars == <<char_to_sym, sym_to_char, sym_freq, sym_cum, position_cum>>
localVars == <<s, r, len, cursor, match_pos, match_length, last_match_length, i,
               sym, textsize, rv, count, c, position>>
histVars == <<orig, window, evicted, fresh, aux>>

\* ---------------------------------------------------------- bit stream
\* a & b on bytes, bit by bit
RECURSIVE BitAnd(_, _)
BitAnd(a, b) ==
    IF a = 0 \/ b = 0 THEN 0
    ELSE (IF a % 2 = 1 /\ b % 2 = 1 THEN 1 ELSE 0) + 2 * BitAnd(a \div 2, b \div 2)

\* a | b on bytes
BitOr(a, b) == a + b - BitAnd(a, b)

\* the output side of the bit stream: [buf, byte, mask]
OutState == [buf |-> outbuf, byte |-> out_buffer, mask |-> out_mask]

put_bit(o, bit) ==
    LET b1 == IF bit THEN BitOr(o.byte, o.mask) ELSE o.byte
        m1 == o.mask \div 2
    IN IF m1 = 0
       THEN [buf |-> Append(o.buf, b1), byte |-> 0, mask |-> 128]
       ELSE [buf |-> o.buf, byte |-> b1, mask |-> m1]

RECURSIVE put_bits(_, _, _)
put_bits(o, bit, n) == IF n = 0 THEN o ELSE put_bits(put_bit(o, bit), bit, n - 1)

flush_bit_buffer(o) == put_bits(o, FALSE, 7)

\* the input side: [buffer, mask, cursor]; get_bit returns the new state and the bit
InState == [buffer |-> in_buffer, mask |-> in_mask, cursor |-> in_cursor]

get_bit(n, bytes) ==
    LET m1 == n.mask \div 2
        st == IF m1 = 0
              THEN [buffer |-> IF n.cursor < Len(bytes) THEN bytes[n.cursor + 1] ELSE 255,
                    mask |-> 128, cursor |-> n.cursor + 1]
              ELSE [buffer |-> n.buffer, mask |-> m1, cursor |-> n.cursor]
    IN [st |-> st, bit |-> IF BitAnd(st.buffer, st.mask) # 0 THEN 1 ELSE 0]

\* output(bit): the bit, then its complement shifts times
output(o, bit, pending) == put_bits(put_bit(o, bit), ~bit, pending)

\* ------------------------------------------------------- symbol model
Zeros(n) == [k \in 0..n |-> 0]

\* the reverse loop of start_model over the symbols, from sym = N_CHAR down to 1
RECURSIVE StartSyms(_, _)
StartSyms(m, k) ==
    IF k = 0 THEN m
    ELSE StartSyms([c2s |-> [m.c2s EXCEPT ![k - 1] = k],
                    s2c |-> [m.s2c EXCEPT ![k] = k - 1],
                    freq |-> [m.freq EXCEPT ![k] = 1],
                    cum |-> [m.cum EXCEPT ![k - 1] = m.cum[k] + 1]], k - 1)

\* the reverse loop of start_model over the positions
RECURSIVE StartPositions(_, _)
StartPositions(pc0, k) ==
    IF k = 0 THEN pc0
    ELSE StartPositions([pc0 EXCEPT ![k - 1] = pc0[k] + (10000 \div (k + 200))], k - 1)

ModelState == [c2s |-> char_to_sym, s2c |-> sym_to_char, freq |-> sym_freq, cum |-> sym_cum]

start_model(m) == StartSyms(m, N_CHAR)

\* the rescale loop of update_model, from k = N_CHAR down to 1; c is the running sum
RECURSIVE Rescale(_, _, _)
Rescale(m, k, acc) ==
    IF k = 0 THEN [m EXCEPT !.cum[0] = acc]
    ELSE LET f == (m.freq[k] + 1) \div 2
         IN Rescale([m EXCEPT !.cum[k] = acc, !.freq[k] = f], k - 1, acc + f)

\* a walk that stays at rank k: the increment then breaks the order of sym_freq
TieWalkNone(freq, k) == k

\* the walk to the lowest rank with the frequency of rank k
RECURSIVE TieWalk(_, _)
TieWalk(freq, k) == IF freq[k] = freq[k - 1] THEN TieWalk(freq, k - 1) ELSE k

update_model(m, sy) ==
    LET m1 == IF m.cum[0] >= MAX_CUM THEN Rescale(m, N_CHAR, 0) ELSE m
        k == TieWalk(m1.freq, sy)
        ch_i == m1.s2c[k]
        ch_sym == m1.s2c[sy]
        m2 == IF k < sy
              THEN [m1 EXCEPT !.s2c = [m1.s2c EXCEPT ![k] = ch_sym, ![sy] = ch_i],
                              !.c2s = [m1.c2s EXCEPT ![ch_i] = sy, ![ch_sym] = k]]
              ELSE m1
    IN [m2 EXCEPT !.freq[k] = m2.freq[k] + 1,
                  !.cum = [j \in 0..N_CHAR |-> IF j < k THEN m2.cum[j] + 1 ELSE m2.cum[j]]]

\* ------------------------------------------------- the search tree
\* the tree arrays and the match_position field: [lson, rson, dad, mp]
TreeState == [lson |-> lson, rson |-> rson, dad |-> dad, mp |-> match_position]

init_tree(t) ==
    [t EXCEPT !.rson = [k \in DOMAIN t.rson |->
                          IF k >= RING_BUF_SIZE + 1 THEN NIL ELSE t.rson[k]],
              !.dad = [k \in DOMAIN t.dad |->
                          IF k < RING_BUF_SIZE THEN NIL ELSE t.dad[k]]]

\* the distance taken the wrong way round, pos - buf_pos
WrapSubReversed(a, b) == (b + RING_BUF_SIZE * (1 + a \div RING_BUF_SIZE) - a) % RING_BUF_SIZE

\* (a - b) & (RING_BUF_SIZE - 1) where a - b has wrapped modulo 2^64 when a < b:
\* 2^64 is a multiple of RING_BUF_SIZE, so the masked value is (a - b) mod RING_BUF_SIZE
WrapSubMask(a, b) == (a + RING_BUF_SIZE * (1 + b \div RING_BUF_SIZE) - b) % RING_BUF_SIZE

\* the inner loop of insert_node: key[k].cmp(text_buf[pos + k]) from k on
RECURSIVE KeyCompare(_, _, _, _)
KeyCompare(tb, bp, pos, k) ==
    IF k >= MAX_MATCH_LEN THEN [idx |-> k, cmp |-> "Equal"]
    ELSE IF tb[bp + k] > tb[pos + k] THEN [idx |-> k, cmp |-> "Greater"]
    ELSE IF tb[bp + k] < tb[pos + k] THEN [idx |-> k, cmp |-> "Less"]
    ELSE KeyCompare(tb, bp, pos, k + 1)

\* lines 181-191: buf_pos takes the place of pos, which leaves the tree
ReplaceNode(t, bp, pos) ==
    LET d1 == [t.dad EXCEPT ![bp] = t.dad[pos]]
        l1 == [t.lson EXCEPT ![bp] = t.lson[pos]]
        r1 == [t.rson EXCEPT ![bp] = t.rson[pos]]
        d2 == [d1 EXCEPT ![l1[pos]] = bp]
        d3 == [d2 EXCEPT ![r1[pos]] = bp]
        isR == r1[d3[pos]] = pos
        r2 == IF isR THEN [r1 EXCEPT ![d3[pos]] = bp] ELSE r1
        l2 == IF isR THEN l1 ELSE [l1 EXCEPT ![d3[pos]] = bp]
    IN [lson |-> l2, rson |-> r2, dad |-> [d3 EXCEPT ![pos] = NIL], mp |-> t.mp]

\* the tie of line 171 keeps the smaller distance
TieBreak(dist, mp) == IF dist < mp THEN dist ELSE mp

\* the loop of insert_node from node pos, last comparison cmp, best length ml;
\* uf: a subtraction buf_pos - pos with pos > buf_pos has been evaluated
RECURSIVE Descend(_, _, _, _, _, _, _)
Descend(t, tb, bp, pos, cmp, ml, uf) ==
    LET child == IF cmp = "Greater" THEN t.rson[pos] ELSE t.lson[pos]
    IN IF child = NIL
       THEN [tree |-> [t EXCEPT !.rson = IF cmp = "Greater"
                                         THEN [t.rson EXCEPT ![pos] = bp] ELSE t.rson,
                                !.lson = IF cmp = "Greater"
                                         THEN t.lson ELSE [t.lson EXCEPT ![pos] = bp],
                                !.dad = [t.dad EXCEPT ![bp] = pos]],
             ml |-> ml, underflow |-> uf, evict |-> NIL]
       ELSE LET kc == KeyCompare(tb, bp, child, 1)
                better == kc.idx > THRESHOLD /\ kc.idx > ml
                tie == kc.idx > THRESHOLD /\ kc.idx = ml
                dist == WrapSubMask(bp, child)
                uf1 == uf \/ ((better \/ tie) /\ bp < child)
                mp1 == IF better THEN dist
                       ELSE IF tie THEN TieBreak(dist, t.mp) ELSE t.mp
                ml1 == IF better THEN kc.idx ELSE ml
                t1 == [t EXCEPT !.mp = mp1]
            IN IF better /\ kc.idx >= MAX_MATCH_LEN
               THEN [tree |-> ReplaceNode(t1, bp, child),
                     ml |-> ml1, underflow |-> uf1, evict |-> child]
               ELSE Descend(t1, tb, bp, child, kc.cmp, ml1, uf1)

\* insert_node(buf_pos): the new tree, the returned match_length (the returned
\* match_position is tree.mp), whether a subtraction underflowed, and the
\* position the insertion replaced (NIL: none)
insert_node(t, tb, bp) ==
    Descend([t EXCEPT !.rson[bp] = NIL, !.lson[bp] = NIL], tb, bp,
            RING_BUF_SIZE + 1 + tb[bp], "Greater", 0, FALSE)

\* the while loop of delete_node: the rightmost descendant of q
RECURSIVE Rightmost(_, _)
Rightmost(rs, q) == IF rs[q] # NIL THEN Rightmost(rs, rs[q]) ELSE q

\* lines 205-217: q replaces pos, which has two children
TwoChildren(t, pos) ==
    LET q0 == t.lson[pos]
    IN IF t.rson[q0] # NIL
       THEN LET q == Rightmost(t.rson, q0)
                r1 == [t.rson EXCEPT ![t.dad[q]] = t.lson[q]]
                d1 == [t.dad EXCEPT ![t.lson[q]] = t.dad[q]]
                l1 == [t.lson EXCEPT ![q] = t.lson[pos]]
                d2 == [d1 EXCEPT ![l1[pos]] = q]
                r2 == [r1 EXCEPT ![q] = r1[pos]]
                d3 == [d2 EXCEPT ![r2[pos]] = q]
            IN [q |-> q, tree |-> [t EXCEPT !.lson = l1, !.rson = r2, !.dad = d3]]
       ELSE LET r2 == [t.rson EXCEPT ![q0] = t.rson[pos]]
                d3 == [t.dad EXCEPT ![r2[pos]] = q0]
            IN [q |-> q0, tree |-> [t EXCEPT !.rson = r2, !.dad = d3]]

\* a delete_node that forgets line 225 and leaves dad[pos] as it is
UnlinkKeep(d, pos) == d

\* the last assignment of delete_node: pos is marked absent
Unlink(d, pos) == [d EXCEPT ![pos] = NIL]

delete_node(t, pos) ==
    IF t.dad[pos] = NIL THEN t
    ELSE LET sel == IF t.rson[pos] = NIL THEN [q |-> t.lson[pos], tree |-> t]
                    ELSE IF t.lson[pos] = NIL THEN [q |-> t.rson[pos], tree |-> t]
                    ELSE TwoChildren(t, pos)
             q == sel.q
             d1 == [sel.tree.dad EXCEPT ![q] = sel.tree.dad[pos]]
             isR == sel.tree.rson[d1[pos]] = pos
             r1 == IF isR THEN [sel.tree.rson EXCEPT ![d1[pos]] = q] ELSE sel.tree.rson
             l1 == IF isR THEN sel.tree.lson ELSE [sel.tree.lson EXCEPT ![d1[pos]] = q]
         IN [lson |-> l1, rson |-> r1, dad |-> Unlink(d1, pos), mp |-> t.mp]

\* a narrowing with the two cumulative frequencies exchanged
NarrowSwapped(lo, hi, cHigh, cLow, tot) ==
    [low |-> lo + (((hi - lo) * cHigh) \div tot),
     high |-> lo + (((hi - lo) * cLow) \div tot)]

\* ------------------------------------------------- arithmetic coder
\* the interval narrowing of encode_char, encode_position, decode_char and
\* decode_position: cHigh and cLow are the cumulative bounds, tot the total
Narrow(lo, hi, cHigh, cLow, tot) ==
    [low |-> lo + (((hi - lo) * cLow) \div tot),
     high |-> lo + (((hi - lo) * cHigh) \div tot)]

\* one pass of the loop of encode_char / encode_position
EncNormStep(lo, hi, sh, o) ==
    IF hi <= Q2
    THEN [stop |-> FALSE, low |-> lo + lo, high |-> hi + hi, shifts |-> 0,
          out |-> output(o, FALSE, sh)]
    ELSE IF lo >= Q2
    THEN [stop |-> FALSE, low |-> (lo - Q2) + (lo - Q2), high |-> (hi - Q2) + (hi - Q2),
          shifts |-> 0, out |-> output(o, TRUE, sh)]
    ELSE IF lo >= Q1 /\ hi <= Q3
    THEN [stop |-> FALSE, low |-> (lo - Q1) + (lo - Q1), high |-> (hi - Q1) + (hi - Q1),
          shifts |-> sh + 1, out |-> o]
    ELSE [stop |-> TRUE, low |-> lo, high |-> hi, shifts |-> sh, out |-> o]

\* a decoder whose first test is low > Q2 where the encoder's is low >= Q2
DecNormCaseStrict(lo, hi) ==
    IF lo > Q2 THEN Q2
    ELSE IF lo >= Q1 /\ hi <= Q3 THEN Q1
    ELSE IF hi > Q2 THEN 0 - 1
    ELSE 0

\* the subtrahend of one pass of the loop of decode_char / decode_position,
\* -1 when the loop breaks
DecNormCase(lo, hi) ==
    IF lo >= Q2 THEN Q2
    ELSE IF lo >= Q1 /\ hi <= Q3 THEN Q1
    ELSE IF hi > Q2 THEN 0 - 1
    ELSE 0

\* one pass of the loop of decode_char / decode_position; underflow: value is
\* below the subtrahend
DecNormStep(lo, hi, val, n, bytes) ==
    LET d == DecNormCase(lo, hi)
        g == get_bit(n, bytes)
    IN IF d < 0
       THEN [stop |-> TRUE, low |-> lo, high |-> hi, value |-> val, in |-> n,
             underflow |-> FALSE]
       ELSE [stop |-> FALSE, low |-> (lo - d) + (lo - d), high |-> (hi - d) + (hi - d),
             value |-> IF val < d THEN 0 ELSE 2 * (val - d) + g.bit, in |-> g.st,
             underflow |-> val < d]

encode_end(o, lo, sh) == flush_bit_buffer(output(o, ~(lo < Q1), sh + 1))

RECURSIVE BinarySearch(_, _, _, _)
BinarySearch(cum, x, lo, hi) ==
    IF lo < hi
    THEN LET k == (lo + hi) \div 2
         IN IF cum[k] > x THEN BinarySearch(cum, x, k + 1, hi)
            ELSE BinarySearch(cum, x, lo, k)
    ELSE lo

binary_search_sym(cum, x) == BinarySearch(cum, x, 1, N_CHAR)

binary_search_pos(cum, x) == BinarySearch(cum, x, 1, RING_BUF_SIZE) - 1

\* the target of decode_char / decode_position
Target(val, lo, hi, tot) == (((val - lo + 1) * tot) - 1) \div (hi - lo)

\* start_decode: k more bits shifted into value
RECURSIVE start_decode(_, _, _, _)
start_decode(val, n, bytes, k) ==
    IF k = 0 THEN [value |-> val, in |-> n]
    ELSE LET g == get_bit(n, bytes)
         IN start_decode(2 * val + g.bit, g.st, bytes, k - 1)

\* (len as u32).to_le_bytes()
to_le_bytes(n) == [k \in 1..SIZE_U32 |-> (n \div (256 ^ (k - 1))) % 256]

\* u32::from_le_bytes
from_le_bytes(b) == b[1] + 256 * b[2] + 65536 * b[3] + 16777216 * b[4]

\* ------------------------------------------------------------ inputs
\* every text of at most MaxLen bytes
Inputs == UNION {[1..n -> 0..(NBYTES - 1)] : n \in 0..MaxLen}

\* stream bytes of the raw decoder inputs
PayloadBytes == {0, 36, 73, 109, 146, 182, 219, 255}

Payloads == UNION {[1..n -> PayloadBytes] : n \in 0..MaxPayload}

\* raw decoder inputs: too short for a header, or a header and any payload
DecInputs ==
    UNION {[1..n -> {0, 255}] : n \in 0..(SIZE_U32 - 1)}
    \cup {to_le_bytes(t) \o p : t \in 0..MaxTextSize, p \in Payloads}

NoAux == [phase |-> "none"]

\* LZARIContext::new(bytes), and the locals before their first assignment
InitStream(bytes) ==
    /\ inbuf = bytes
    /\ outbuf = <<>>
    /\ in_buffer = 0 /\ in_mask = 0 /\ in_cursor = 0
    /\ out_buffer = 0 /\ out_mask = 128

InitTree ==
    /\ text_buf = Zeros(RING_BUF_SIZE + MAX_MATCH_LEN - 2)
    /\ lson = Zeros(RING_BUF_SIZE)
    /\ rson = Zeros(RING_BUF_SIZE + NBYTES)
    /\ dad = Zeros(RING_BUF_SIZE)
    /\ match_position = 0

InitCoder ==
    /\ low = 0 /\ high = Q4 /\ value = 0 /\ shifts = 0

InitModel ==
    /\ char_to_sym = Zeros(N_CHAR - 1)
    /\ sym_to_char = Zeros(N_CHAR)
    /\ sym_freq = Zeros(N_CHAR)
    /\ sym_cum = Zeros(N_CHAR)
    /\ position_cum = Zeros(RING_BUF_SIZE)

InitLocals ==
    /\ s = 0 /\ r = 0 /\ len = 0 /\ cursor = 0
    /\ match_pos = 0 /\ match_length = 0 /\ last_match_length = 0 /\ i = 0
    /\ sym = 0 /\ textsize = 0 /\ rv = <<>> /\ count = 0 /\ c = 0 /\ position = 0
    /\ window = {} /\ evicted = {} /\ fresh = FALSE

InitContext(bytes) ==
    InitStream(bytes) /\ InitTree /\ InitCoder /\ InitModel /\ InitLocals

\* main.rs: mode "e" followed by mode "d" on its output (a round trip), or
\* mode "d" on any file; the build decides what an arithmetic overflow does
Init ==
    /\ mode \in {"roundtrip", "decode"}
    /\ overflow_checks \in BOOLEAN
    /\ \E bytes \in (IF mode = "roundtrip" THEN Inputs ELSE DecInputs) :
          InitContext(bytes) /\ orig = bytes
    /\ pc = IF mode = "roundtrip" THEN "encode" ELSE "decode"
    /\ aux = NoAux

\* ------------------------------------------------------------ encode
\* a panic leaves the operation: nothing is returned
Panic(where) ==
    /\ pc' = where
    /\ UNCHANGED <<bitVars, treeVars, coderVars, modelVars, localVars,
                   mode, overflow_checks, histVars>>

\* text_buf after lines 445-452: the space fill and the first len bytes
LoadText(tb, bytes, n) ==
    [k \in DOMAIN tb |->
        IF k < RING_BUF_SIZE - MAX_MATCH_LEN THEN SPACE
        ELSE IF k - (RING_BUF_SIZE - MAX_MATCH_LEN) < n
             THEN bytes[k - (RING_BUF_SIZE - MAX_MATCH_LEN) + 1]
             ELSE tb[k]]

\* lines 439-454
EncodeBegin ==
    /\ pc = "encode"
    /\ LET m == start_model(ModelState)
           t == init_tree(TreeState)
           n == Min(MAX_MATCH_LEN, Len(inbuf))
       IN /\ outbuf' = outbuf \o to_le_bytes(Len(inbuf))
          /\ char_to_sym' = m.c2s /\ sym_to_char' = m.s2c
          /\ sym_freq' = m.freq /\ sym_cum' = m.cum
          /\ position_cum' = StartPositions(position_cum, RING_BUF_SIZE)
          /\ lson' = t.lson /\ rson' = t.rson /\ dad' = t.dad
          /\ text_buf' = LoadText(text_buf, inbuf, n)
          /\ s' = 0 /\ r' = RING_BUF_SIZE - MAX_MATCH_LEN
          /\ len' = n /\ cursor' = n
          /\ i' = 1
    /\ pc' = "populate"
    /\ UNCHANGED <<inbuf, in_buffer, in_mask, in_cursor, out_buffer, out_mask,
                   match_position, coderVars, match_pos, match_length,
                   last_match_length, sym, textsize, rv, count, c, position,
                   mode, overflow_checks, histVars>>

\* the tree after insert_node(bp) returned res, and its history: bp has
\* entered the window, the positions in gone have left it before, and
\* res.evict (if any) is the position that bp replaced in the tree
Inserted(res, bp, gone) ==
    /\ lson' = res.tree.lson /\ rson' = res.tree.rson /\ dad' = res.tree.dad
    /\ match_position' = res.tree.mp
    /\ window' = (window \ gone) \cup {bp}
    /\ evicted' = {e \in evicted : e.pos \notin gone /\ e.pos # bp}
                  \cup (IF res.evict = NIL THEN {}
                        ELSE {[pos |-> res.evict, by |-> bp]})

\* line 461: insert_node(r - i), one pass of the loop
Populate ==
    /\ pc = "populate" /\ i <= MAX_MATCH_LEN
    /\ LET res == insert_node(TreeState, text_buf, r - i)
       IN IF res.underflow /\ overflow_checks
          THEN Panic("enc_panic")
          ELSE /\ Inserted(res, r - i, {})
               /\ i' = i + 1
               /\ UNCHANGED <<pc, bitVars, text_buf, coderVars, modelVars,
                              s, r, len, cursor, match_pos, match_length,
                              last_match_length, sym, textsize, rv, count, c,
                              position, mode, overflow_checks, orig, fresh, aux>>

\* line 463: (match_position, match_length) = insert_node(r)
InsertFirst ==
    /\ pc = "populate" /\ i > MAX_MATCH_LEN
    /\ LET res == insert_node(TreeState, text_buf, r)
       IN IF res.underflow /\ overflow_checks
          THEN Panic("enc_panic")
          ELSE /\ Inserted(res, r, {})
               /\ match_pos' = res.tree.mp /\ match_length' = res.ml
               /\ fresh' = TRUE
               /\ pc' = "loop"
               /\ UNCHANGED <<bitVars, text_buf, coderVars, modelVars,
                              s, r, len, cursor, last_match_length, i,
                              sym, textsize, rv, count, c, position,
                              mode, overflow_checks, orig, aux>>

\* lines 466-474 up to the narrowing of encode_char (lines 295-298)
EncodeChar ==
    /\ pc = "loop" /\ len > 0
    /\ LET ml == IF match_length > len THEN len ELSE match_length
           ch == IF ml <= THRESHOLD THEN text_buf[r]
                 ELSE (NBYTES - 1) - THRESHOLD + ml
           sy == char_to_sym[ch]
           nw == Narrow(low, high, sym_cum[sy - 1], sym_cum[sy], sym_cum[0])
       IN /\ match_length' = IF ml <= THRESHOLD THEN 1 ELSE ml
          /\ sym' = sy
          /\ low' = nw.low /\ high' = nw.high
    /\ pc' = "enc_char_norm"
    /\ fresh' = FALSE
    /\ UNCHANGED <<bitVars, treeVars, value, shifts, modelVars,
                   s, r, len, cursor, match_pos, last_match_length, i,
                   textsize, rv, count, c, position,
                   mode, overflow_checks, orig, window, evicted, aux>>

\* one pass of the loop of encode_char (lines 299-315); at its break,
\* update_model (line 316) and the rest of lines 470-478
EncCharNormalize ==
    /\ pc = "enc_char_norm"
    /\ LET st == EncNormStep(low, high, shifts, OutState)
           m == update_model(ModelState, sym)
       IN IF st.stop
          THEN /\ char_to_sym' = m.c2s /\ sym_to_char' = m.s2c
               /\ sym_freq' = m.freq /\ sym_cum' = m.cum
               /\ IF match_length <= THRESHOLD
                  THEN pc' = "advance" /\ last_match_length' = match_length /\ i' = 0
                  ELSE pc' = "enc_position" /\ UNCHANGED <<last_match_length, i>>
               /\ UNCHANGED <<bitVars, coderVars>>
          ELSE /\ low' = st.low /\ high' = st.high /\ shifts' = st.shifts
               /\ outbuf' = st.out.buf /\ out_buffer' = st.out.byte
               /\ out_mask' = st.out.mask
               /\ UNCHANGED <<pc, inbuf, in_buffer, in_mask, in_cursor, value,
                              char_to_sym, sym_to_char, sym_freq, sym_cum,
                              last_match_length, i>>
    /\ UNCHANGED <<treeVars, position_cum, s, r, len, cursor, match_pos,
                   match_length, sym, textsize, rv, count, c, position,
                   mode, overflow_checks, histVars>>

\* line 475 up to the narrowing of encode_position (lines 320-322);
\* match_position - 1 with match_position = 0 panics in every build (the
\* wrapped value indexes position_cum out of bounds)
EncodePosition ==
    /\ pc = "enc_position"
    /\ IF match_pos = 0
       THEN Panic("enc_panic")
       ELSE /\ LET nw == Narrow(low, high, position_cum[match_pos - 1],
                                position_cum[match_pos], position_cum[0])
               IN low' = nw.low /\ high' = nw.high
            /\ pc' = "enc_pos_norm"
            /\ UNCHANGED <<bitVars, treeVars, value, shifts, modelVars, localVars,
                           mode, overflow_checks, histVars>>

\* one pass of the loop of encode_position (lines 323-339); at its break,
\* lines 477-478
EncPosNormalize ==
    /\ pc = "enc_pos_norm"
    /\ LET st == EncNormStep(low, high, shifts, OutState)
       IN IF st.stop
          THEN /\ pc' = "advance" /\ last_match_length' = match_length /\ i' = 0
               /\ UNCHANGED <<bitVars, coderVars>>
          ELSE /\ low' = st.low /\ high' = st.high /\ shifts' = st.shifts
               /\ outbuf' = st.out.buf /\ out_buffer' = st.out.byte
               /\ out_mask' = st.out.mask
               /\ UNCHANGED <<pc, inbuf, in_buffer, in_mask, in_cursor, value,
                              last_match_length, i>>
    /\ UNCHANGED <<treeVars, modelVars, s, r, len, cursor, match_pos,
                   match_length, sym, textsize, rv, count, c, position,
                   mode, overflow_checks, histVars>>

\* lines 481-484: the byte read into the ring buffer and into its mirror
WriteText(tb, at, byte) ==
    [k \in DOMAIN tb |->
        IF k = at \/ (at < MAX_MATCH_LEN - 1 /\ k = at + RING_BUF_SIZE)
        THEN byte ELSE tb[k]]

\* s and r advance modulo the ring size
Advance(p) == (p + 1) % RING_BUF_SIZE

\* lines 479-489: one pass of the loop that reads the input
AdvanceRead ==
    /\ pc = "advance"
    /\ i < Min(last_match_length, Len(inbuf) - cursor)
    /\ LET t1 == delete_node(TreeState, s)
           tb1 == WriteText(text_buf, s, inbuf[cursor + i + 1])
           res == insert_node(t1, tb1, Advance(r))
       IN IF res.underflow /\ overflow_checks
          THEN Panic("enc_panic")
          ELSE /\ Inserted(res, Advance(r), {s})
               /\ text_buf' = tb1
               /\ s' = Advance(s) /\ r' = Advance(r)
               /\ match_pos' = res.tree.mp /\ match_length' = res.ml
               /\ i' = i + 1
               /\ fresh' = TRUE
               /\ UNCHANGED <<pc, bitVars, coderVars, modelVars, len, cursor,
                              last_match_length, sym, textsize, rv, count, c,
                              position, mode, overflow_checks, orig, aux>>

\* line 490, after the reading loop has ended
AdvanceEnd ==
    /\ pc = "advance"
    /\ ~(i < Min(last_match_length, Len(inbuf) - cursor))
    /\ cursor' = cursor + i
    /\ pc' = "drain"
    /\ UNCHANGED <<bitVars, treeVars, coderVars, modelVars, s, r, len,
                   match_pos, match_length, last_match_length, i, sym,
                   textsize, rv, count, c, position,
                   mode, overflow_checks, histVars>>

\* lines 491-500: one pass of the loop that runs once the input is exhausted
Drain ==
    /\ pc = "drain" /\ i < last_match_length
    /\ LET t1 == delete_node(TreeState, s)
           res == insert_node(t1, text_buf, Advance(r))
       IN IF len - 1 > 0
          THEN IF res.underflow /\ overflow_checks
               THEN Panic("enc_panic")
               ELSE /\ Inserted(res, Advance(r), {s})
                    /\ match_pos' = res.tree.mp /\ match_length' = res.ml
                    /\ fresh' = TRUE
                    /\ i' = i + 1 /\ len' = len - 1
                    /\ s' = Advance(s) /\ r' = Advance(r)
                    /\ UNCHANGED <<pc, bitVars, text_buf, coderVars, modelVars,
                                   cursor, last_match_length, sym, textsize, rv,
                                   count, c, position, mode, overflow_checks,
                                   orig, aux>>
          ELSE /\ lson' = t1.lson /\ rson' = t1.rson /\ dad' = t1.dad
               /\ window' = window \ {s}
               /\ evicted' = {e \in evicted : e.pos # s}
               /\ fresh' = FALSE
               /\ i' = i + 1 /\ len' = len - 1
               /\ s' = Advance(s) /\ r' = Advance(r)
               /\ UNCHANGED <<pc, bitVars, text_buf, match_position, coderVars,
                              modelVars, cursor, match_pos, match_length,
                              last_match_length, sym, textsize, rv, count, c,
                              position, mode, overflow_checks, orig, aux>>

\* the end of the loop of lines 491-500: back to line 465
DrainEnd ==
    /\ pc = "drain" /\ ~(i < last_match_length)
    /\ pc' = "loop"
    /\ UNCHANGED <<bitVars, treeVars, coderVars, modelVars, localVars,
                   mode, overflow_checks, histVars>>

\* lines 502-504: encode_end, and encode returns outbuf
EncodeEnd ==
    /\ pc = "loop" /\ ~(len > 0)
    /\ LET o == encode_end(OutState, low, shifts)
       IN /\ outbuf' = o.buf /\ out_buffer' = o.byte /\ out_mask' = o.mask
    /\ shifts' = 0
    /\ pc' = "encoded"
    /\ UNCHANGED <<inbuf, in_buffer, in_mask, in_cursor, treeVars, low, high,
                   value, modelVars, localVars, mode, overflow_checks, histVars>>

\* main.rs lines 13-19 again: LZARIContext::new on the encoder's output
Reopen ==
    /\ pc = "encoded" /\ mode = "roundtrip"
    /\ inbuf' = outbuf
    /\ outbuf' = <<>>
    /\ in_buffer' = 0 /\ in_mask' = 0 /\ in_cursor' = 0
    /\ out_buffer' = 0 /\ out_mask' = 128
    /\ text_buf' = Zeros(RING_BUF_SIZE + MAX_MATCH_LEN - 2)
    /\ lson' = Zeros(RING_BUF_SIZE)
    /\ rson' = Zeros(RING_BUF_SIZE + NBYTES)
    /\ dad' = Zeros(RING_BUF_SIZE)
    /\ match_position' = 0
    /\ low' = 0 /\ high' = Q4 /\ value' = 0 /\ shifts' = 0
    /\ char_to_sym' = Zeros(N_CHAR - 1)
    /\ sym_to_char' = Zeros(N_CHAR)
    /\ sym_freq' = Zeros(N_CHAR)
    /\ sym_cum' = Zeros(N_CHAR)
    /\ position_cum' = Zeros(RING_BUF_SIZE)
    /\ s' = 0 /\ r' = 0 /\ len' = 0 /\ cursor' = 0
    /\ match_pos' = 0 /\ match_length' = 0 /\ last_match_length' = 0 /\ i' = 0
    /\ sym' = 0 /\ textsize' = 0 /\ rv' = <<>> /\ count' = 0 /\ c' = 0
    /\ position' = 0
    /\ window' = {} /\ evicted' = {} /\ fresh' = FALSE
    /\ pc' = "decode"
    /\ UNCHANGED <<mode, overflow_checks, orig, aux>>

\* ------------------------------------------------------------ decode
\* lines 514-516: the space fill
FillText(tb) ==
    [k \in DOMAIN tb |-> IF k < RING_BUF_SIZE - MAX_MATCH_LEN THEN SPACE ELSE tb[k]]

\* a header read that takes a missing header for a length of 0
ReadHeaderLenient(bytes) ==
    IF Len(bytes) < SIZE_U32
    THEN [ok |-> TRUE, textsize |-> 0]
    ELSE [ok |-> TRUE, textsize |-> from_le_bytes(SubSeq(bytes, 1, SIZE_U32))]

\* line 508: the header, when the slice inbuf[0..4] exists
ReadHeader(bytes) ==
    IF Len(bytes) < SIZE_U32
    THEN [ok |-> FALSE, textsize |-> 0]
    ELSE [ok |-> TRUE, textsize |-> from_le_bytes(SubSeq(bytes, 1, SIZE_U32))]

\* lines 508-521; the slice inbuf[0..4] of a shorter input panics
DecodeBegin ==
    /\ pc = "decode"
    /\ IF ~ReadHeader(inbuf).ok
       THEN Panic("dec_panic")
       ELSE /\ textsize' = ReadHeader(inbuf).textsize
            /\ LET sd == start_decode(value, [InState EXCEPT !.cursor = SIZE_U32],
                                      inbuf, M + 2)
                   m == start_model(ModelState)
               IN /\ value' = sd.value
                  /\ in_buffer' = sd.in.buffer /\ in_mask' = sd.in.mask
                  /\ in_cursor' = sd.in.cursor
                  /\ char_to_sym' = m.c2s /\ sym_to_char' = m.s2c
                  /\ sym_freq' = m.freq /\ sym_cum' = m.cum
            /\ position_cum' = StartPositions(position_cum, RING_BUF_SIZE)
            /\ text_buf' = FillText(text_buf)
            /\ r' = RING_BUF_SIZE - MAX_MATCH_LEN
            /\ rv' = <<>> /\ count' = 0
            /\ pc' = "dec_loop"
            /\ UNCHANGED <<inbuf, outbuf, out_buffer, out_mask, lson, rson, dad,
                           match_position, low, high, shifts, s, len, cursor,
                           match_pos, match_length, last_match_length, i, sym,
                           c, position, mode, overflow_checks, histVars>>

\* line 523 up to the narrowing of decode_char (lines 387-391); value - low
\* with value < low overflows
DecodeChar ==
    /\ pc = "dec_loop" /\ count < textsize
    /\ IF value < low
       THEN Panic("dec_panic")
       ELSE /\ LET sy == binary_search_sym(sym_cum, Target(value, low, high, sym_cum[0]))
                   nw == Narrow(low, high, sym_cum[sy - 1], sym_cum[sy], sym_cum[0])
               IN sym' = sy /\ low' = nw.low /\ high' = nw.high
            /\ pc' = "dec_char_norm"
            /\ UNCHANGED <<bitVars, treeVars, value, shifts, modelVars,
                           s, r, len, cursor, match_pos, match_length,
                           last_match_length, i, textsize, rv, count, c, position,
                           mode, overflow_checks, histVars>>

\* one pass of a decoder normalization loop that does not break
DecNormalized(st) ==
    /\ low' = st.low /\ high' = st.high /\ value' = st.value
    /\ in_buffer' = st.in.buffer /\ in_mask' = st.in.mask
    /\ in_cursor' = st.in.cursor
    /\ UNCHANGED <<pc, inbuf, outbuf, out_buffer, out_mask, shifts, treeVars,
                   modelVars, localVars, mode, overflow_checks, histVars>>

\* one pass of the loop of decode_char (lines 392-407); at its break, lines
\* 408-410 and the literal of lines 524-528
DecCharNormalize ==
    /\ pc = "dec_char_norm"
    /\ LET st == DecNormStep(low, high, value, InState, inbuf)
           ch == sym_to_char[sym]
           m == update_model(ModelState, sym)
       IN IF st.underflow
          THEN Panic("dec_panic")
          ELSE IF ~st.stop
          THEN DecNormalized(st)
          ELSE /\ char_to_sym' = m.c2s /\ sym_to_char' = m.s2c
               /\ sym_freq' = m.freq /\ sym_cum' = m.cum
               /\ c' = ch
               /\ IF ch < NBYTES
                  THEN /\ rv' = Append(rv, ch)
                       /\ text_buf' = [text_buf EXCEPT ![r] = ch]
                       /\ r' = Advance(r)
                       /\ count' = count + 1
                       /\ pc' = "dec_loop"
                  ELSE /\ pc' = "dec_position"
                       /\ UNCHANGED <<rv, text_buf, r, count>>
               /\ UNCHANGED <<bitVars, lson, rson, dad, match_position, coderVars,
                              position_cum, s, len, cursor, match_pos,
                              match_length, last_match_length, i, sym, textsize,
                              position, mode, overflow_checks, histVars>>

\* line 530 up to the narrowing of decode_position (lines 414-418)
DecodePosition ==
    /\ pc = "dec_position"
    /\ IF value < low
       THEN Panic("dec_panic")
       ELSE /\ LET p == binary_search_pos(position_cum,
                                          Target(value, low, high, position_cum[0]))
                   nw == Narrow(low, high, position_cum[p], position_cum[p + 1],
                                position_cum[0])
               IN position' = p /\ low' = nw.low /\ high' = nw.high
            /\ pc' = "dec_pos_norm"
            /\ UNCHANGED <<bitVars, treeVars, value, shifts, modelVars,
                           s, r, len, cursor, match_pos, match_length,
                           last_match_length, i, sym, textsize, rv, count, c,
                           mode, overflow_checks, histVars>>

\* the copy loop of lines 532-538: k of j bytes copied so far
RECURSIVE CopyMatch(_, _, _, _)
CopyMatch(st, from, k, j) ==
    IF k >= j THEN st
    ELSE LET byte == st.tb[(from + k) % RING_BUF_SIZE]
         IN CopyMatch([tb |-> [st.tb EXCEPT ![st.r] = byte],
                       rv |-> Append(st.rv, byte),
                       r |-> Advance(st.r),
                       count |-> st.count + 1], from, k + 1, j)

\* one pass of the loop of decode_position (lines 419-434); at its break,
\* lines 530-538
DecPosNormalize ==
    /\ pc = "dec_pos_norm"
    /\ LET st == DecNormStep(low, high, value, InState, inbuf)
           from == WrapSubMask(r, position + 1)
           j == c - (NBYTES - 1) + THRESHOLD
           cp == CopyMatch([tb |-> text_buf, rv |-> rv, r |-> r, count |-> count],
                           from, 0, j)
       IN IF st.underflow
          THEN Panic("dec_panic")
          ELSE IF ~st.stop
          THEN DecNormalized(st)
          ELSE /\ i' = from
               /\ text_buf' = cp.tb /\ rv' = cp.rv /\ r' = cp.r /\ count' = cp.count
               /\ pc' = "dec_loop"
               /\ UNCHANGED <<bitVars, lson, rson, dad, match_position, coderVars,
                              modelVars, s, len, cursor, match_pos, match_length,
                              last_match_length, sym, textsize, c, position,
                              mode, overflow_checks, histVars>>

\* line 541: decode returns rv
DecodeEnd ==
    /\ pc = "dec_loop" /\ ~(count < textsize)
    /\ pc' = "done"
    /\ UNCHANGED <<bitVars, treeVars, coderVars, modelVars, localVars,
                   mode, overflow_checks, histVars>>

Next ==
    \/ EncodeBegin \/ Populate \/ InsertFirst
    \/ EncodeChar \/ EncCharNormalize \/ EncodePosition \/ EncPosNormalize
    \/ AdvanceRead \/ AdvanceEnd \/ Drain \/ DrainEnd \/ EncodeEnd
    \/ Reopen
    \/ DecodeBegin \/ DecodeChar \/ DecCharNormalize
    \/ DecodePosition \/ DecPosNormalize \/ DecodeEnd

Spec == Init /\ [][Next]_vars

\* --------------------------------------- the symbol model on its own
\* The rescale of update_model needs sym_cum[0] >= MAX_CUM, some 2^15 calls
\* after start_model.  ModelSpec starts where such a run has arrived: after
\* start_model, f[1] - 1 calls of update_model(1), then f[2] - 1 calls of
\* update_model(2), and so on, leave the ranks' characters as start_model set
\* them and the frequencies f, for any non-increasing f of total below Q1.
RECURSIVE SumFrom(_, _)
SumFrom(f, k) == IF k > N_CHAR THEN 0 ELSE f[k] + SumFrom(f, k + 1)

Tails == {g \in [2..N_CHAR -> 1..MaxTail] : \A k \in 2..(N_CHAR - 1) : g[k] >= g[k + 1]}

\* one dominant symbol, two equally dominant symbols, or the start
SeedFreqs ==
    {[k \in 1..N_CHAR |-> IF k = 1 THEN MAX_CUM - d - SumFrom(g, 2) ELSE g[k]] :
        g \in Tails, d \in 0..MaxSlack}
    \cup {[k \in 1..N_CHAR |-> IF k <= 2 THEN (MAX_CUM - d - SumFrom(g, 3)) \div 2
                               ELSE g[k]] : g \in Tails, d \in 0..MaxSlack}
    \cup {[k \in 1..N_CHAR |-> 1]}

ModelInit ==
    /\ mode = "model" /\ pc = "model" /\ overflow_checks = FALSE
    /\ InitStream(<<>>) /\ InitTree /\ InitCoder /\ InitLocals
    /\ orig = <<>>
    /\ aux = [phase |-> "model", updates |-> 0, rescaled |-> FALSE]
    /\ \E f \in SeedFreqs :
          LET m == start_model([c2s |-> Zeros(N_CHAR - 1), s2c |-> Zeros(N_CHAR),
                                freq |-> Zeros(N_CHAR), cum |-> Zeros(N_CHAR)])
          IN /\ char_to_sym = m.c2s /\ sym_to_char = m.s2c
             /\ sym_freq = [k \in 0..N_CHAR |-> IF k = 0 THEN 0 ELSE f[k]]
             /\ sym_cum = [k \in 0..N_CHAR |-> SumFrom(f, k + 1)]
    /\ position_cum = StartPositions(Zeros(RING_BUF_SIZE), RING_BUF_SIZE)

\* update_model(sy) for any symbol
ModelUpdate ==
    /\ pc = "model" /\ aux.updates < MaxUpdates
    /\ \E sy \in 1..N_CHAR :
          LET m == update_model(ModelState, sy)
          IN /\ char_to_sym' = m.c2s /\ sym_to_char' = m.s2c
             /\ sym_freq' = m.freq /\ sym_cum' = m.cum
    /\ aux' = [aux EXCEPT !.updates = @ + 1,
                          !.rescaled = @ \/ sym_cum[0] >= MAX_CUM]
    /\ UNCHANGED <<bitVars, treeVars, coderVars, position_cum, localVars,
                   pc, mode, overflow_checks, orig, window, evicted, fresh>>

ModelNext == ModelUpdate

ModelSpec == ModelInit /\ [][ModelNext]_vars

\* --------------------------------- the two normalization loops compared
\* NormSpec runs the encoder's loop from (low, high), then the decoder's loop
\* of a context started from the same (low, high), value inside the interval.
NormGrid == {k * (Q1 \div 2) + d : k \in 0..8, d \in {0 - 1, 0, 1}} \cap 0..Q4

NormPairs == {pr \in NormGrid \X NormGrid : pr[1] < pr[2]}

\* the bits written so far / read so far
RECURSIVE MaskIndex(_)
MaskIndex(m) == IF m >= 128 THEN 0 ELSE 1 + MaskIndex(2 * m)

BitsEmitted == 8 * Len(outbuf) + MaskIndex(out_mask)

BitsConsumed == IF in_mask = 0 THEN 0 ELSE 8 * (in_cursor - 1) + MaskIndex(in_mask) + 1

NormInit ==
    /\ mode = "norm" /\ pc = "norm_enc" /\ overflow_checks = FALSE
    /\ \E bytes \in {<<>>, <<0, 0, 0>>} : InitStream(bytes)
    /\ InitTree /\ InitModel /\ InitLocals
    /\ orig = <<>>
    /\ \E pr \in NormPairs, sh \in 0..MaxShifts :
          \E v \in {pr[1], pr[2] - 1} :
             /\ low = pr[1] /\ high = pr[2] /\ shifts = sh /\ value = v
             /\ aux = [phase |-> "norm", low0 |-> pr[1], high0 |-> pr[2],
                       shifts0 |-> sh, encLow |-> 0, encHigh |-> 0,
                       encDoublings |-> 0, decDoublings |-> 0]

\* one pass of the encoder's loop that does not break
NormEncode ==
    /\ pc = "norm_enc"
    /\ LET st == EncNormStep(low, high, shifts, OutState)
       IN /\ ~st.stop
          /\ low' = st.low /\ high' = st.high /\ shifts' = st.shifts
          /\ outbuf' = st.out.buf /\ out_buffer' = st.out.byte
          /\ out_mask' = st.out.mask
    /\ aux' = [aux EXCEPT !.encDoublings = @ + 1]
    /\ UNCHANGED <<inbuf, in_buffer, in_mask, in_cursor, value, treeVars,
                   modelVars, localVars, pc, mode, overflow_checks,
                   orig, window, evicted, fresh>>

\* the encoder's loop breaks; the decoder's context starts from the same interval
NormSwitch ==
    /\ pc = "norm_enc"
    /\ EncNormStep(low, high, shifts, OutState).stop
    /\ aux' = [aux EXCEPT !.encLow = low, !.encHigh = high]
    /\ low' = aux.low0 /\ high' = aux.high0
    /\ pc' = "norm_dec"
    /\ UNCHANGED <<bitVars, value, shifts, treeVars, modelVars, localVars,
                   mode, overflow_checks, orig, window, evicted, fresh>>

\* one pass of the decoder's loop that does not break
NormDecode ==
    /\ pc = "norm_dec"
    /\ LET st == DecNormStep(low, high, value, InState, inbuf)
       IN /\ ~st.stop /\ ~st.underflow
          /\ low' = st.low /\ high' = st.high /\ value' = st.value
          /\ in_buffer' = st.in.buffer /\ in_mask' = st.in.mask
          /\ in_cursor' = st.in.cursor
    /\ aux' = [aux EXCEPT !.decDoublings = @ + 1]
    /\ UNCHANGED <<inbuf, outbuf, out_buffer, out_mask, shifts, treeVars,
                   modelVars, localVars, pc, mode, overflow_checks,
                   orig, window, evicted, fresh>>

\* the decoder's loop breaks
NormFinish ==
    /\ pc = "norm_dec"
    /\ DecNormStep(low, high, value, InState, inbuf).stop
    /\ pc' = "norm_done"
    /\ UNCHANGED <<bitVars, treeVars, coderVars, modelVars, localVars,
                   mode, overflow_checks, histVars>>

NormNext == NormEncode \/ NormSwitch \/ NormDecode \/ NormFinish

NormSpec == NormInit /\ [][NormNext]_vars

\* --------------------------------------------------------- the claims
\* the positions the tree holds
TreePositions == {p \in 0..(RING_BUF_SIZE - 1) : dad[p] # NIL}

\* encode has populated the tree and has not returned
AfterPopulation ==
    pc \in {"loop", "enc_char_norm", "enc_position", "enc_pos_norm", "advance", "drain"}

\* the operation has ended: a result, or a panic
EncodeEnded == pc \in {"encoded", "enc_panic"}
RoundTripEnded == mode = "roundtrip" /\ pc \in {"done", "enc_panic", "dec_panic"}

\* the value of four little-endian bytes
LittleEndian(b) == b[1] + 256 * b[2] + 256 * 256 * b[3] + 256 * 256 * 256 * b[4]

\* C1: for every input x, decode applied to encode(x) returns exactly x: every
\* round trip ends with decode returning the encoder's input.
C1_RoundTrip == RoundTripEnded => (pc = "done" /\ rv = orig)

\* (C1, the part that holds) a round trip that returns, returns the input
RoundTripIfReturned == (mode = "roundtrip" /\ pc = "done") => rv = orig
RoundTripReturned == mode = "roundtrip" /\ pc = "done" /\ Len(orig) = MaxLen

\* C2: encode is total: no step of encode fails, in particular no unsigned
\* subtraction of insert_node or encode has a negative result.
C2_EncodeTotal == pc # "enc_panic"

\* C3: the output of decode on an input of at least 4 bytes has length
\* exactly textsize, the value of its first four bytes.
C3_OutputLength ==
    (pc = "done" /\ Len(inbuf) >= SIZE_U32) =>
        (Len(rv) = LittleEndian(inbuf) /\ textsize = LittleEndian(inbuf))

\* (C3, the part that holds) never fewer bytes than textsize, and fewer than
\* MAX_MATCH_LEN more
OutputLengthBounds ==
    pc = "done" => (Len(rv) >= textsize /\ Len(rv) < textsize + MAX_MATCH_LEN)

\* the decoder has been given inbuf
Decoding ==
    pc \in {"decode", "dec_loop", "dec_char_norm", "dec_position", "dec_pos_norm",
            "done", "dec_panic"}

\* nothing of the stream is consumed, no model is built, nothing is output
Untouched ==
    /\ in_cursor = 0 /\ in_mask = 0 /\ in_buffer = 0 /\ value = 0
    /\ sym_cum = Zeros(N_CHAR) /\ sym_freq = Zeros(N_CHAR)
    /\ position_cum = Zeros(RING_BUF_SIZE)
    /\ rv = <<>> /\ outbuf = <<>>

\* C4: decode on an input shorter than 4 bytes fails: its only step is the
\* panic, nothing is returned, and before and after that step no bit is
\* consumed, no model state is built and no output exists.
C4_ShortInputFails ==
    /\ []((Decoding /\ Len(inbuf) < SIZE_U32) =>
            (pc \in {"decode", "dec_panic"} /\ Untouched))
    /\ [][(pc = "decode" /\ Len(inbuf) < SIZE_U32) => pc' = "dec_panic"]_vars

C4_Witness == pc = "dec_panic" /\ Len(inbuf) = SIZE_U32 - 1 /\ mode = "decode"

\* C5: for every input x, encode(x) is len(x) in four little-endian bytes
\* followed by at least one byte: every encode ends returning such an output.
C5_LengthPrefix ==
    EncodeEnded =>
        (/\ pc = "encoded"
         /\ Len(outbuf) >= SIZE_U32 + 1
         /\ LittleEndian(outbuf) = Len(orig))

\* (C5, the part that holds) an encode that returns, returns such an output
PrefixIfReturned ==
    pc = "encoded" => (Len(outbuf) >= SIZE_U32 + 1 /\ LittleEndian(outbuf) = Len(orig))

\* C6 as claimed: after the population and after each window advance, the
\* positions with dad[p] # NIL are exactly the positions in the window.
C6_TreeIsWindow == AfterPopulation => TreePositions = window

\* the F-byte key at p, and the common prefix of two keys from byte k on
Key(p) == [k \in 0..(MAX_MATCH_LEN - 1) |-> text_buf[p + k]]

RECURSIVE CommonPrefix(_, _, _)
CommonPrefix(p, q, k) ==
    IF k < MAX_MATCH_LEN /\ text_buf[p + k] = text_buf[q + k]
    THEN CommonPrefix(p, q, k + 1) ELSE k

\* C6 amended: the positions with dad[p] # NIL are the window positions
\* except those that insert_node took out of the tree when it put a position
\* with the same F-byte key in their place; while that position is in the
\* window the keys are equal.
C6_TreeIsWindowLessReplaced ==
    AfterPopulation =>
        /\ TreePositions = window \ {e.pos : e \in evicted}
        /\ \A e \in evicted :
              /\ e.pos \in window
              /\ e.by \in window => Key(e.pos) = Key(e.by)

C6_Witness ==
    /\ AfterPopulation
    /\ \E e \in evicted : e.pos \in window /\ e.by \notin window
    /\ Cardinality(TreePositions) > 1

\* the backward distance from r to p
Distance(p) == (r + RING_BUF_SIZE - p) % RING_BUF_SIZE

\* the longest common prefix of the key at r with the key at a position of S,
\* as insert_node reports it: 0 when not above THRESHOLD
Longest(S) ==
    LET n == IF S = {} THEN 0
             ELSE CHOOSE n \in {CommonPrefix(r, p, 0) : p \in S} :
                     \A p \in S : CommonPrefix(r, p, 0) <= n
    IN IF n > THRESHOLD THEN n ELSE 0

\* the smallest element of a non-empty set of numbers
Smallest(S) == CHOOSE n \in S : \A k \in S : n <= k

\* C7 as claimed: insert_node(r) returns the longest match of the window and
\* the smallest distance among the window positions that match that long.
C7_BestMatchOfWindow ==
    fresh =>
        /\ match_length = Longest(window \ {r})
        /\ match_length > 0 =>
              match_pos = Smallest({Distance(p) : p \in
                             {q \in window \ {r} : CommonPrefix(r, q, 0) >= match_length}})

\* the positions the tree held when insert_node(r) was called
TreeBefore == (TreePositions \ {r}) \cup {e.pos : e \in {d \in evicted : d.by = r}}

\* C7 amended: insert_node(r) returns the longest match among the positions
\* in the tree when it is called, and the distance of one of the tree
\* positions that match that long.
C7_BestMatchOfTree ==
    fresh =>
        /\ match_length = Longest(TreeBefore)
        /\ match_length > 0 =>
              \E p \in TreeBefore :
                 /\ CommonPrefix(r, p, 0) >= match_length
                 /\ match_pos = Distance(p)

C7_Witness ==
    /\ fresh /\ match_length > THRESHOLD
    /\ \E p \in TreeBefore :
          CommonPrefix(r, p, 0) >= match_length /\ Distance(p) < match_pos

\* C8: after start_model and any update_model calls, sym_cum[N_CHAR] = 0,
\* sym_cum[k-1] = sym_cum[k] + sym_freq[k], sym_freq is non-increasing and at
\* least 1, and sym_cum[0] < Q1.
C8_ModelWellFormed ==
    /\ sym_cum[N_CHAR] = 0
    /\ \A k \in 1..N_CHAR : sym_cum[k - 1] = sym_cum[k] + sym_freq[k]
    /\ \A k \in 1..(N_CHAR - 1) : sym_freq[k] >= sym_freq[k + 1]
    /\ \A k \in 1..N_CHAR : sym_freq[k] >= 1
    /\ sym_cum[0] < Q1

C8_Witness ==
    /\ aux.phase = "model" /\ aux.rescaled /\ aux.updates = MaxUpdates
    /\ sym_to_char[1] # 0

\* C9: 0 <= low < high <= Q4 after every narrowing and every normalization
\* step of encode_char, encode_position, decode_char and decode_position.
C9_Interval == 0 <= low /\ low < high /\ high <= Q4

C9_Witness ==
    /\ pc = "dec_pos_norm" /\ mode = "decode"
    /\ low >= Q1 /\ high <= Q3 /\ in_cursor > SIZE_U32 + MaxPayload

\* (C2, the part that holds) without overflow checks encode returns
WrappingEncodeReturns == ~overflow_checks => pc # "enc_panic"

\* (for decode's subtractions) value stays inside the interval
ValueInInterval ==
    pc \in {"dec_loop", "dec_char_norm", "dec_position", "dec_pos_norm"} =>
        (low <= value /\ value < high)

\* C10: from the same (low, high) the two normalization loops double equally
\* often and stop with the same (low, high), and the decoder consumes as many
\* bits as the encoder emits plus the increase of its shifts counter.
C10_SameNormalization ==
    pc = "norm_done" =>
        /\ aux.encDoublings = aux.decDoublings
        /\ aux.encLow = low /\ aux.encHigh = high
        /\ BitsConsumed = BitsEmitted + (shifts - aux.shifts0)

C10_Witness ==
    /\ pc = "norm_done" /\ aux.low0 >= Q1 /\ aux.high0 <= Q2
    /\ aux.decDoublings >= 2 /\ aux.shifts0 > 0 /\ shifts > 0



=============================================================================
